---- MODULE Spec2Model ----
(***************************************************************************)
(* The M8 serial decoder of bevy_m8: a SLIP de-framer feeding a command    *)
(* parser.  The repository holds two revisions of it:                      *)
(*   crates/bevy_m8            M8Decoder = M8SlipDecoder + M8CommandDecoder *)
(*   crates/bevy_dirtywave_m8  SlipDecoder, and M8CommandDecoder::process   *)
(* A behaviour of the model runs one of the two (variable crate).          *)
(* Bytes are integers 0..255; Rust slices are 0-based, TLA+ sequences are  *)
(* 1-based, so buf[k] of the source is buf[k+1] here.                      *)
(***************************************************************************)
EXTENDS Integers, Sequences, FiniteSets, TLC

VARIABLES
    crate,           \* which revision this behaviour runs
    caller,          \* "system": the Bevy system fn decode; "direct": the pub method
    buffer,          \* slip decoder: buffer
    state,           \* slip decoder: state
    current_colour,  \* command decoder: current_colour
    commands,        \* command decoder: commands
    iterating,       \* a decode call is inside its try_for_each
    result,          \* Result of the decode call (so far)
    fault,           \* the thread panicked (index out of bounds)
    byte,            \* history: the byte of the latest decode_byte call
    was,             \* history: the slip state that call started in
    esc_was,         \* history: when the call before it was fed SLIP_ESC, the state it started in
    before,          \* history: the buffer that call started with
    packets,         \* history: the packets handed to the command layer in this call
    ctx,             \* history: current_colour before the latest packet was parsed
    last8,           \* history: colour bytes of the latest colour-setting rectangle when it was a length-8 one
    payload,         \* round trip: the payload P; cycle: the slice of the latest decode call
    input,           \* the bytes of the slice that have not been fed to decode_byte
    twin,            \* a second decoder, and the slices it has yet to be fed
    app              \* the Bevy world of the input and remote systems

vars == <<crate, caller, buffer, state, current_colour, commands, iterating,
          result, fault, byte, was, esc_was, before, packets, ctx, last8, payload,
          input, twin, app>>

(***************************************************************************)
(* Bounds of the model.                                                    *)
(***************************************************************************)
\* SlipDecoder::new(capacity); the plugins use 1024.
Capacity == 2
\* M8SlipDecoder's Vec grows without limit; the model stops appending here.
MaxLen == 3
\* Commands completed in one decode call of the byte-level model.
MaxCommands == 1
\* Longest payload of the round trip.
MaxPayload == 3
\* Segments (frames or fragments) in the slice of one read cycle.
MaxSegments == 2
\* Bytes a whole-slice decode call may leave buffered plus the bytes it is given.
MaxBuffered == 20

\* The bytes a session holds and is fed in one decode call, at most.
MaxHeld == 9
\* The slices the first of two decoders may be ahead of the second.
MaxAhead == 2
\* The bytes of a stream given to the slip decoder alone.
MaxStream == 3
\* The messages the input system has sent to the device.
MaxSent == 4
\* The keyboard inputs written or queued by the remote events.
MaxWritten == 4

(***************************************************************************)
(* Wire constants.                                                         *)
(***************************************************************************)
SLIP_END == 192
SLIP_ESC == 219
SLIP_ESC_END == 220
SLIP_ESC_ESC == 221

KEY_PRESS_STATE_COMMAND == 251
DRAW_OSCILLOSCOPE_WAVEFORM_COMMAND == 252
DRAW_CHARACTER_COMMAND == 253
DRAW_RECTANGLE_COMMAND == 254
SYSTEM_INFO_COMMAND == 255

\* const SLIP_BUFFER_CAPACITY: usize = 1024, only ever passed to
\* Vec::with_capacity; scaled to the model's Capacity.
M8_EDIT == 1
M8_OPTION == 2
M8_RIGHT == 4
M8_START == 8
M8_SELECT == 16
M8_DOWN == 32
M8_UP == 64
M8_LEFT == 128

SLIP_BUFFER_CAPACITY == Capacity

Crates == {"bevy_m8", "bevy_dirtywave_m8"}

\* No byte: one below the smallest.
NoByte == 0 - 1

(***************************************************************************)
(* Values.                                                                 *)
(***************************************************************************)
\* The other byte order, against which the little-endian reading is compared.
u16_from_be_bytes(lo, hi) == hi + 256 * lo

u16_from_le_bytes(lo, hi) == lo + 256 * hi

Position(x, y) == [x |-> x, y |-> y]

Size(width, height) == [width |-> width, height |-> height]

\* The channels read in the opposite order, against which the red, green,
\* blue order is compared.
u8_slice_to_color_bgr(slice) ==
    [red |-> slice[3], green |-> slice[2], blue |-> slice[1], alpha |-> 255]

\* bevy_m8: Color::Srgba with f32 channels byte / 255.0 and alpha 1.0.  The
\* channels are kept as exact multiples of 1/255: the record holds the
\* numerators, so alpha 1.0 is 255.
u8_slice_to_color(slice) ==
    [red |-> slice[1], green |-> slice[2], blue |-> slice[3], alpha |-> 255]

\* bevy_dirtywave_m8: struct Colour { r, g, b }.
Colour(r, g, b) == [r |-> r, g |-> g, b |-> b]

\* Srgba::default() is white (decode_test expects 1.0, 1.0, 1.0, 1.0 from a
\* fresh decoder).
M8InitialColour == [red |-> 255, green |-> 255, blue |-> 255, alpha |-> 255]

DirtywaveInitialColour == Colour(0, 0, 0)

InitialColour(c) == IF c = "bevy_m8" THEN M8InitialColour ELSE DirtywaveInitialColour

DrawRectangle(pos, size, colour) ==
    [type |-> "DrawRectangle", pos |-> pos, size |-> size, colour |-> colour]

\* The two colours in the other order, against which the order of the
\* fields is compared.
DrawCharacterSwapped(c, pos, foreground, background) ==
    [type |-> "DrawCharacter", c |-> c, pos |-> pos,
     foreground |-> background, background |-> foreground]

DrawCharacter(c, pos, foreground, background) ==
    [type |-> "DrawCharacter", c |-> c, pos |-> pos,
     foreground |-> foreground, background |-> background]

\* A waveform that keeps no samples, against which the copying of them is
\* compared.
DrawOscilloscopeWaveformEmpty(colour, waveform) ==
    [type |-> "DrawOscilloscopeWaveform", colour |-> colour, waveform |-> <<>>]

DrawOscilloscopeWaveform(colour, waveform) ==
    [type |-> "DrawOscilloscopeWaveform", colour |-> colour, waveform |-> waveform]

SystemInfo(hardware_type, major, minor, patch, font_mode) ==
    [type |-> "SystemInfo", hardware_type |-> hardware_type, major |-> major,
     minor |-> minor, patch |-> patch, font_mode |-> font_mode]

\* Error values: M8DecodeError, SlipError, M8CommandError.
Error(name, b) == [err |-> name, byte |-> b]

NoError == Error("none", NoByte)

\* Result<(), E> of a decode call.
OkResult == [kind |-> "Ok", error |-> NoError]

ErrResult(e) == [kind |-> "Err", error |-> e]

(***************************************************************************)
(* The command parsers.  An outcome is what one parse of buf returns and   *)
(* the colour context it leaves: kind "Ok" with the command, "Err" with    *)
(* the error, or "Panic" when an index is out of bounds.                   *)
(***************************************************************************)
Done(command, colour) == [kind |-> "Ok", value |-> command, colour |-> colour]

\* A rejection that loses the colour context, against which its keeping is
\* compared.
FailLosingColour(e, colour) == [kind |-> "Err", value |-> e, colour |-> e]

Fail(e, colour) == [kind |-> "Err", value |-> e, colour |-> colour]

Panic(colour) == [kind |-> "Panic", value |-> Error("index out of bounds", NoByte), colour |-> colour]

\* bevy_m8: the match of M8CommandDecoder::decode.
M8CommandDecode(buf, colour) ==
    LET len == Len(buf) IN
    IF len = 0 THEN Panic(colour)
    ELSE LET command_type == buf[1] IN
    CASE command_type = DRAW_OSCILLOSCOPE_WAVEFORM_COMMAND ->
            IF len < 4 \/ len > 484
            THEN Fail(Error("DrawOscilloscopeWaveformInvalidFormat", NoByte), colour)
            ELSE Done(DrawOscilloscopeWaveform(u8_slice_to_color(SubSeq(buf, 2, 4)),
                                               SubSeq(buf, 5, len)), colour)
      [] command_type = DRAW_CHARACTER_COMMAND ->
            IF len # 12
            THEN Fail(Error("DrawCharacterInvalidFormat", NoByte), colour)
            ELSE Done(DrawCharacter(buf[2],
                                    Position(u16_from_le_bytes(buf[3], buf[4]),
                                             u16_from_le_bytes(buf[5], buf[6])),
                                    u8_slice_to_color(SubSeq(buf, 7, 9)),
                                    u8_slice_to_color(SubSeq(buf, 10, 12))), colour)
      [] command_type = DRAW_RECTANGLE_COMMAND ->
           (CASE len = 5 ->
                    Done(DrawRectangle(Position(u16_from_le_bytes(buf[2], buf[3]),
                                                u16_from_le_bytes(buf[4], buf[5])),
                                       Size(1, 1), colour), colour)
              [] len = 8 ->
                    LET c == u8_slice_to_color(SubSeq(buf, 6, 8)) IN
                    Done(DrawRectangle(Position(u16_from_le_bytes(buf[2], buf[3]),
                                                u16_from_le_bytes(buf[4], buf[5])),
                                       Size(1, 1), c), c)
              [] len = 9 ->
                    Done(DrawRectangle(Position(u16_from_le_bytes(buf[2], buf[3]),
                                                u16_from_le_bytes(buf[4], buf[5])),
                                       Size(u16_from_le_bytes(buf[6], buf[7]),
                                            u16_from_le_bytes(buf[8], buf[9])),
                                       colour), colour)
              [] len = 12 ->
                    LET c == u8_slice_to_color(SubSeq(buf, 10, 12)) IN
                    Done(DrawRectangle(Position(u16_from_le_bytes(buf[2], buf[3]),
                                                u16_from_le_bytes(buf[4], buf[5])),
                                       Size(u16_from_le_bytes(buf[6], buf[7]),
                                            u16_from_le_bytes(buf[8], buf[9])),
                                       c), c)
              [] OTHER -> Fail(Error("DrawRectangleInvalidFormat", NoByte), colour))
      [] command_type = SYSTEM_INFO_COMMAND ->
            IF len < 6 THEN Panic(colour)
            ELSE Done(SystemInfo(buf[2], buf[3], buf[4], buf[5], buf[6]), colour)
      [] OTHER -> Fail(Error("UnrecognizedCommand", command_type), colour)

\* bevy_dirtywave_m8: M8Command::from_bytes_with_context.
from_bytes_with_context(buf, colour) ==
    LET len == Len(buf) IN
    IF len = 0 THEN Panic(colour)
    ELSE LET command_type == buf[1] IN
    CASE command_type = DRAW_OSCILLOSCOPE_WAVEFORM_COMMAND ->
            IF len < 4 \/ len > 484
            THEN Fail(Error("InvalidCommand", NoByte), colour)
            ELSE Done(DrawOscilloscopeWaveform(Colour(buf[2], buf[3], buf[4]),
                                               SubSeq(buf, 5, len)), colour)
      [] command_type = DRAW_CHARACTER_COMMAND ->
            IF len # 12
            THEN Fail(Error("InvalidCommand", NoByte), colour)
            ELSE Done(DrawCharacter(buf[2],
                                    Position(u16_from_le_bytes(buf[3], buf[4]),
                                             u16_from_le_bytes(buf[5], buf[6])),
                                    Colour(buf[7], buf[8], buf[9]),
                                    Colour(buf[10], buf[11], buf[12])), colour)
      [] command_type = DRAW_RECTANGLE_COMMAND ->
           (CASE len = 5 ->
                    Done(DrawRectangle(Position(u16_from_le_bytes(buf[2], buf[3]),
                                                u16_from_le_bytes(buf[4], buf[5])),
                                       Size(1, 1), colour), colour)
              [] len = 8 ->
                    LET c == Colour(buf[6], buf[7], buf[8]) IN
                    Done(DrawRectangle(Position(u16_from_le_bytes(buf[2], buf[3]),
                                                u16_from_le_bytes(buf[4], buf[5])),
                                       Size(1, 1), c), c)
              [] len = 9 ->
                    Done(DrawRectangle(Position(u16_from_le_bytes(buf[2], buf[3]),
                                                u16_from_le_bytes(buf[4], buf[5])),
                                       Size(u16_from_le_bytes(buf[6], buf[7]),
                                            u16_from_le_bytes(buf[8], buf[9])),
                                       colour), colour)
              [] len = 12 ->
                    LET c == Colour(buf[6], buf[7], buf[8]) IN
                    Done(DrawRectangle(Position(u16_from_le_bytes(buf[2], buf[3]),
                                                u16_from_le_bytes(buf[4], buf[5])),
                                       Size(u16_from_le_bytes(buf[6], buf[7]),
                                            u16_from_le_bytes(buf[8], buf[9])),
                                       c), c)
              [] OTHER -> Fail(Error("InvalidCommand", NoByte), colour))
      [] command_type = SYSTEM_INFO_COMMAND ->
            IF len < 6 THEN Panic(colour)
            ELSE Done(SystemInfo(buf[2], buf[3], buf[4], buf[5], buf[6]), colour)
      [] OTHER -> Fail(Error("UnrecognizedCommand", NoByte), colour)

(***************************************************************************)
(* The framers.  A decoder value d holds the fields of one decoder; a      *)
(* step is what one decode_byte call leaves: the decoder, the call's       *)
(* Result, and the packets it handed to the command layer.                 *)
(***************************************************************************)
Step(d, res, handed) == [d |-> d, res |-> res, handed |-> handed]

PanicResult == [kind |-> "Panic", error |-> Error("index out of bounds", NoByte)]

\* A reset of the state alone, against which the clearing of the buffer is
\* compared.
M8ResetStateOnly(d) == [d EXCEPT !.state = "Normal"]

\* M8SlipDecoder::reset.
M8Reset(d) == [d EXCEPT !.buffer = <<>>, !.state = "Normal"]

\* A push that leaves the state as it is, against which the state after a
\* byte is compared.
M8PutByteKeepingState(d, b) == [d EXCEPT !.buffer = Append(@, b)]

\* M8SlipDecoder::put_byte: push, no capacity check.
M8PutByte(d, b) == [d EXCEPT !.buffer = Append(@, b), !.state = "Normal"]

\* A rejected packet that empties the command list, against which the
\* list after an error is compared.
M8EndOfFrameClearingOnErr(d) ==
    LET o == M8CommandDecode(d.buffer, d.current_colour)
        dd == [d EXCEPT !.current_colour = o.colour,
                        !.commands = IF o.kind = "Ok" THEN Append(@, o.value) ELSE <<>>]
    IN  CASE o.kind = "Ok" -> Step(M8Reset(dd), OkResult, <<d.buffer>>)
          [] o.kind = "Err" -> Step(dd, ErrResult(o.value), <<d.buffer>>)
          [] OTHER -> Step(dd, PanicResult, <<d.buffer>>)

\* A command list that grows at its front, against which the order of the
\* list is compared.
M8EndOfFramePrepending(d) ==
    LET o == M8CommandDecode(d.buffer, d.current_colour)
        dd == [d EXCEPT !.current_colour = o.colour,
                        !.commands = IF o.kind = "Ok" THEN <<o.value>> \o @ ELSE @]
    IN  CASE o.kind = "Ok" -> Step(M8Reset(dd), OkResult, <<d.buffer>>)
          [] o.kind = "Err" -> Step(dd, ErrResult(o.value), <<d.buffer>>)
          [] OTHER -> Step(dd, PanicResult, <<d.buffer>>)

\* M8CommandDecoder::decode on the slip buffer, then (only on Ok: the ?
\* returns early) slip_decoder.reset().
M8EndOfFrame(d) ==
    LET o == M8CommandDecode(d.buffer, d.current_colour)
        dd == [d EXCEPT !.current_colour = o.colour,
                        !.commands = IF o.kind = "Ok" THEN Append(@, o.value) ELSE @]
    IN  CASE o.kind = "Ok" -> Step(M8Reset(dd), OkResult, <<d.buffer>>)
          [] o.kind = "Err" -> Step(dd, ErrResult(o.value), <<d.buffer>>)
          [] OTHER -> Step(dd, PanicResult, <<d.buffer>>)

\* A framer that lets SLIP_END complete the frame in Escaped as well,
\* against which the handling of an unresolved escape is compared.
M8DecodeByteEndInEscaped(d, b) ==
    IF b = SLIP_END THEN M8EndOfFrame(d)
    ELSE IF d.state = "Normal"
    THEN CASE b = SLIP_ESC -> Step([d EXCEPT !.state = "Escaped"], OkResult, <<>>)
           [] OTHER -> Step(M8PutByte(d, b), OkResult, <<>>)
    ELSE CASE b = SLIP_ESC_END -> Step(M8PutByte(d, SLIP_END), OkResult, <<>>)
           [] b = SLIP_ESC_ESC -> Step(M8PutByte(d, SLIP_ESC), OkResult, <<>>)
           [] OTHER -> Step(M8Reset(d), ErrResult(Error("UnknownEscapedByte", b)), <<>>)

\* M8Decoder::decode_byte.
M8DecodeByte(d, b) ==
    IF d.state = "Normal"
    THEN CASE b = SLIP_END -> M8EndOfFrame(d)
           [] b = SLIP_ESC -> Step([d EXCEPT !.state = "Escaped"], OkResult, <<>>)
           [] OTHER -> Step(M8PutByte(d, b), OkResult, <<>>)
    ELSE CASE b = SLIP_ESC_END -> Step(M8PutByte(d, SLIP_END), OkResult, <<>>)
           [] b = SLIP_ESC_ESC -> Step(M8PutByte(d, SLIP_ESC), OkResult, <<>>)
           [] OTHER -> Step(M8Reset(d), ErrResult(Error("UnknownEscapedByte", b)), <<>>)

\* A reset of the state alone, against which the clearing of the buffer is
\* compared.
SlipResetStateOnly(d) == [d EXCEPT !.state = "Normal"]

\* SlipDecoder::reset.
SlipReset(d) == [d EXCEPT !.buffer = <<>>, !.state = "Normal"]

\* A push at the front of the buffer, against which the place of the new
\* byte is compared.
SlipPutByteAtFront(d, b) ==
    IF Len(d.buffer) >= Capacity
    THEN Step(SlipReset(d), ErrResult(Error("BufferOverflow", NoByte)), <<>>)
    ELSE Step([d EXCEPT !.buffer = <<b>> \o @, !.state = "Normal"], OkResult, <<>>)

\* SlipDecoder::put_byte.
SlipPutByte(d, b) ==
    IF Len(d.buffer) >= Capacity
    THEN Step(SlipReset(d), ErrResult(Error("BufferOverflow", NoByte)), <<>>)
    ELSE Step([d EXCEPT !.buffer = Append(@, b), !.state = "Normal"], OkResult, <<>>)

\* SlipDecoder::decode_byte: the SLIP_END arm is commented out in the
\* source, so SLIP_END in Normal falls to the catch-all arm.
SlipDecodeByte(d, b) ==
    IF d.state = "Normal"
    THEN CASE b = SLIP_ESC -> Step([d EXCEPT !.state = "Escaped"], OkResult, <<>>)
           [] OTHER -> SlipPutByte(d, b)
    ELSE CASE b = SLIP_ESC_END -> SlipPutByte(d, SLIP_END)
           [] b = SLIP_ESC_ESC -> SlipPutByte(d, SLIP_ESC)
           [] OTHER -> Step(SlipReset(d), ErrResult(Error("UnknownEscapedByte", b)), <<>>)

DecodeByteOf(c, d, b) ==
    IF c = "bevy_m8" THEN M8DecodeByte(d, b) ELSE SlipDecodeByte(d, b)

(***************************************************************************)
(* The byte-level state machine.                                           *)
(***************************************************************************)
\* The bytes fed: the four SLIP bytes and the waveform tag, which is an
\* ordinary byte to the framer.
Bytes == {SLIP_END, SLIP_ESC, SLIP_ESC_END, SLIP_ESC_ESC,
          DRAW_OSCILLOSCOPE_WAVEFORM_COMMAND}

Decoder ==
    [buffer |-> buffer, state |-> state,
     current_colour |-> current_colour, commands |-> commands]

\* Whether decode_byte(b) appends to the buffer in the current state.
Appends(b) ==
    IF state = "Normal" THEN b \notin {SLIP_END, SLIP_ESC}
    ELSE b \in {SLIP_ESC_END, SLIP_ESC_ESC}

Callers(c) == IF c = "bevy_m8" THEN {"system", "direct"} ELSE {"direct"}

\* The second decoder as its constructor leaves it, with no slice pending.
NewTwin(c) ==
    [buffer |-> <<>>, state |-> "Normal", current_colour |-> InitialColour(c),
     commands |-> <<>>, result |-> OkResult, behind |-> <<>>]

\* The world at startup: the collection still loading, no key held,
\* Local<u8> at its default, nothing sent to the device,
\* M8KeyboardEventQueue::default(), no message written.
NewApp ==
    [loading_state |-> "Loading",
     keys |-> [pressed |-> {}, just_pressed |-> {}],
     prev_mask |-> 0,
     tx |-> <<>>,
     event_queue |-> <<>>,
     keyboard_events |-> <<>>]

Fresh ==
    /\ twin = NewTwin(crate)
    /\ app = NewApp
    /\ buffer = <<>>
    /\ state = "Normal"
    /\ current_colour = InitialColour(crate)
    /\ commands = <<>>
    /\ result = OkResult
    /\ fault = FALSE
    /\ byte = NoByte
    /\ was = "Normal"
    /\ esc_was = "none"
    /\ before = <<>>
    /\ packets = <<>>
    /\ ctx = InitialColour(crate)
    /\ last8 = <<>>

Init ==
    /\ crate \in Crates
    /\ caller \in Callers(crate)
    /\ Fresh
    /\ iterating = FALSE
    /\ payload = <<>>
    /\ input = <<>>

\* The start of a decode call: M8Decoder::decode clears the command list,
\* SlipDecoder::decode resets the framer.
BeginDecode ==
    /\ ~fault
    /\ ~iterating
    /\ iterating' = TRUE
    /\ result' = OkResult
    /\ packets' = <<>>
    /\ IF crate = "bevy_m8"
       THEN /\ commands' = <<>>
            /\ UNCHANGED <<buffer, state, byte, was, esc_was, before>>
       ELSE /\ buffer' = SlipReset(Decoder).buffer
            /\ state' = SlipReset(Decoder).state
            /\ byte' = NoByte
            /\ was' = "Normal"
            /\ esc_was' = "none"
            /\ before' = <<>>
            /\ UNCHANGED commands
    /\ UNCHANGED <<crate, caller, current_colour, fault, ctx, last8>>

\* One iteration of try_for_each(|chr| self.decode_byte(*chr)).  An Err
\* ends the call; fn decode (the system) then resets the slip decoder.
DecodeByteStep(b) ==
    /\ ~fault
    /\ iterating
    /\ Len(commands) < MaxCommands
    /\ (crate = "bevy_m8" /\ Appends(b)) => Len(buffer) < MaxLen
    /\ LET s == DecodeByteOf(crate, Decoder, b)
           recover == s.res.kind = "Err" /\ crate = "bevy_m8" /\ caller = "system"
           d2 == IF recover THEN M8Reset(s.d) ELSE s.d
       IN  /\ buffer' = d2.buffer
           /\ state' = d2.state
           /\ current_colour' = d2.current_colour
           /\ commands' = d2.commands
           /\ result' = s.res
           /\ iterating' = (s.res.kind = "Ok")
           /\ fault' = (s.res.kind = "Panic")
           /\ packets' = packets \o s.handed
           /\ ctx' = IF s.handed # <<>> THEN current_colour ELSE ctx
    /\ byte' = b
    /\ was' = state
    /\ esc_was' = IF byte = SLIP_ESC THEN was ELSE "none"
    /\ before' = buffer
    /\ UNCHANGED <<crate, caller, last8>>

DecodeByte(b) == DecodeByteStep(b) /\ UNCHANGED <<payload, input, twin, app>>

Begin == BeginDecode /\ UNCHANGED <<payload, input, twin, app>>

\* The end of the slice: try_for_each returns Ok(()).
Return ==
    /\ ~fault
    /\ iterating
    /\ iterating' = FALSE
    /\ UNCHANGED <<crate, caller, buffer, state, current_colour, commands, result,
                   fault, byte, was, esc_was, before, packets, ctx, last8, payload,
                   input, twin, app>>

Next ==
    \/ Begin
    \/ \E b \in Bytes : DecodeByte(b)
    \/ Return

Spec == Init /\ [][Next]_vars

(***************************************************************************)
(* Round trip: one decode call on a fresh decoder whose slice is           *)
(* escaped(P) followed by SLIP_END.                                        *)
(***************************************************************************)
\* The sender's escaping (the device does it; the decoder only undoes it).
RECURSIVE escaped(_)
escaped(P) ==
    IF P = <<>> THEN <<>>
    ELSE (CASE Head(P) = SLIP_END -> <<SLIP_ESC, SLIP_ESC_END>>
            [] Head(P) = SLIP_ESC -> <<SLIP_ESC, SLIP_ESC_ESC>>
            [] OTHER -> <<Head(P)>>) \o escaped(Tail(P))

Payloads == UNION {[1..n -> Bytes] : n \in 1..MaxPayload}

InitRoundTrip ==
    /\ crate \in Crates
    /\ caller \in Callers(crate)
    /\ Fresh
    /\ iterating = TRUE
    /\ payload \in Payloads
    /\ input = escaped(payload) \o <<SLIP_END>>

FeedInput ==
    /\ input # <<>>
    /\ DecodeByteStep(Head(input))
    /\ input' = Tail(input)
    /\ UNCHANGED <<payload, twin, app>>

Finish == input = <<>> /\ Return

NextRoundTrip == FeedInput \/ Finish

SpecRoundTrip == InitRoundTrip /\ [][NextRoundTrip]_vars

(***************************************************************************)
(* The command layer alone: one packet per step.                           *)
(***************************************************************************)
\* A packet of n bytes: the tag, then byte i (0-based) is base + step * i.
MkPacket(tag, n, fill) ==
    [i \in 1..n |-> IF i = 1 THEN tag ELSE (fill[1] + fill[2] * (i - 1)) % 256]

Fills == {<<0, 0>>, <<1, 1>>, <<7, 16>>}

Tags == {KEY_PRESS_STATE_COMMAND, DRAW_OSCILLOSCOPE_WAVEFORM_COMMAND,
         DRAW_CHARACTER_COMMAND, DRAW_RECTANGLE_COMMAND, SYSTEM_INFO_COMMAND, 1}

Packets ==
    {<<>>}
    \cup {MkPacket(t, n, f) : t \in Tags, n \in 1..13, f \in Fills}
    \cup {MkPacket(DRAW_OSCILLOSCOPE_WAVEFORM_COMMAND, n, <<7, 16>>) : n \in {484, 485}}

\* History: the colour bytes of the latest colour-setting rectangle packet
\* when that packet was a length-8 one (<<>> after a length-12 one).
Last8After(p, l8) ==
    IF Len(p) > 0 /\ p[1] = DRAW_RECTANGLE_COMMAND
    THEN (IF Len(p) = 8 THEN SubSeq(p, 6, 8) ELSE IF Len(p) = 12 THEN <<>> ELSE l8)
    ELSE l8

\* A result that hides the parser's errors, against which the reporting of
\* them is compared.
ResultOfHidingErrors(o) ==
    IF o.kind = "Panic" THEN PanicResult ELSE OkResult

ResultOf(o) ==
    CASE o.kind = "Ok" -> OkResult
      [] o.kind = "Err" -> ErrResult(o.value)
      [] OTHER -> PanicResult

\* bevy_m8: command_decoder.reset() then command_decoder.decode(&p), what
\* one decode call does with a slice that completes the single packet p.
DecodePacket(p) ==
    /\ crate = "bevy_m8"
    /\ ~fault
    /\ LET o == M8CommandDecode(p, current_colour) IN
        /\ commands' = IF o.kind = "Ok" THEN <<o.value>> ELSE <<>>
        /\ current_colour' = o.colour
        /\ result' = ResultOf(o)
        /\ fault' = (o.kind = "Panic")
    /\ packets' = <<p>>
    /\ ctx' = current_colour
    /\ last8' = Last8After(p, last8)
    /\ UNCHANGED <<crate, caller, buffer, state, iterating, byte, was, esc_was,
                   before, payload, input>>

\* The elements of a finite set of integers in ascending order.
RECURSIVE Ascending(_)
Ascending(S) ==
    IF S = {} THEN <<>>
    ELSE LET m == CHOOSE x \in S : \A y \in S : x <= y
         IN  <<m>> \o Ascending(S \ {m})

\* buf.split(|&byte| byte == slip::SLIP_END): the pieces between the
\* separators, empty ones included.
Split(buf) ==
    LET cuts == <<0>> \o Ascending({i \in 1..Len(buf) : buf[i] = SLIP_END})
                      \o <<Len(buf) + 1>>
    IN  [k \in 1..(Len(cuts) - 1) |-> SubSeq(buf, cuts[k] + 1, cuts[k + 1] - 1)]

\* The try_for_each closure of M8CommandDecoder::process over the pieces.
RECURSIVE ProcessPieces(_, _)
ProcessPieces(pieces, acc) ==
    IF pieces = <<>> THEN acc
    ELSE LET p == Head(pieces)
             o == from_bytes_with_context(p, acc.colour)
             nxt == [colour |-> o.colour,
                     commands |-> IF o.kind = "Ok" THEN Append(acc.commands, o.value)
                                  ELSE acc.commands,
                     res |-> ResultOf(o),
                     handed |-> Append(acc.handed, p),
                     ctx |-> acc.colour,
                     last8 |-> Last8After(p, acc.last8)]
         IN  IF o.kind = "Ok" THEN ProcessPieces(Tail(pieces), nxt) ELSE nxt

\* bevy_dirtywave_m8: M8CommandDecoder::process(buf).
ProcessBuf(buf) ==
    ProcessPieces(SelectSeq(Split(buf), LAMBDA q : q # <<>>),
                  [colour |-> current_colour, commands |-> <<>>, res |-> OkResult,
                   handed |-> <<>>, ctx |-> ctx, last8 |-> last8])

\* process on a slice holding the single frame p.
Process(p) ==
    /\ crate = "bevy_dirtywave_m8"
    /\ ~fault
    /\ LET r == ProcessBuf(p \o <<SLIP_END>>) IN
        /\ commands' = r.commands
        /\ current_colour' = r.colour
        /\ result' = r.res
        /\ fault' = (r.res.kind = "Panic")
        /\ packets' = r.handed
        /\ ctx' = r.ctx
        /\ last8' = r.last8
    /\ UNCHANGED <<crate, caller, buffer, state, iterating, byte, was, esc_was,
                   before, payload, input>>

InitParser ==
    /\ crate \in Crates
    /\ caller = "direct"
    /\ Fresh
    /\ iterating = FALSE
    /\ payload = <<>>
    /\ input = <<>>

NextParser ==
    \/ \E p \in Packets : DecodePacket(p) /\ UNCHANGED <<twin, app>>
    \/ \E p \in Packets : Process(p) /\ UNCHANGED <<twin, app>>

SpecParser == InitParser /\ [][NextParser]_vars

(***************************************************************************)
(* Whole read cycles: one action is one decode call on a complete slice.   *)
(* The byte-level history variables are those of Spec and stay as they     *)
(* are; payload is the slice and input what the call left unfed.           *)
(***************************************************************************)
\* stream.iter().try_for_each(|chr| self.decode_byte(*chr)): the bytes are
\* fed in order and the first result that is not Ok ends the iteration.
RECURSIVE DecodeBytes(_, _, _, _)
DecodeBytes(c, d, raw, handed) ==
    IF raw = <<>>
    THEN [d |-> d, res |-> OkResult, handed |-> handed, rest |-> <<>>]
    ELSE LET s == DecodeByteOf(c, d, Head(raw)) IN
         IF s.res.kind = "Ok"
         THEN DecodeBytes(c, s.d, Tail(raw), handed \o s.handed)
         ELSE [d |-> s.d, res |-> s.res, handed |-> handed \o s.handed,
               rest |-> Tail(raw)]

\* A length-8 rectangle, a waveform with one sample, a character packet of
\* the wrong length (each followed by SLIP_END), a frame cut short by an
\* invalid escape, and a run of Capacity + 1 bytes without a SLIP_END.
RectangleFrame == <<DRAW_RECTANGLE_COMMAND, 20, 0, 40, 0, 1, 2, 3, SLIP_END>>

WaveformFrame == <<DRAW_OSCILLOSCOPE_WAVEFORM_COMMAND, 1, 2, 3, 4, SLIP_END>>

MalformedCharacterFrame == <<DRAW_CHARACTER_COMMAND, 65, SLIP_END>>

BadEscape == <<DRAW_RECTANGLE_COMMAND, 20, SLIP_ESC, 1>>

Overrun == [i \in 1..(Capacity + 1) |-> DRAW_OSCILLOSCOPE_WAVEFORM_COMMAND]

Segments == {RectangleFrame, WaveformFrame, MalformedCharacterFrame, BadEscape, Overrun}

RECURSIVE Concat(_)
Concat(seqs) == IF seqs = <<>> THEN <<>> ELSE Head(seqs) \o Concat(Tail(seqs))

Cycles == {Concat(ss) : ss \in UNION {[1..n -> Segments] : n \in 1..MaxSegments}}

\* A decode call that starts from the initial colour, against which the
\* lifetime of the colour context is compared.
DecodeCycleNewColour(raw) ==
    /\ crate = "bevy_m8"
    /\ ~fault
    /\ ~iterating
    /\ Len(buffer) + Len(raw) <= MaxBuffered
    /\ LET r == DecodeBytes(crate, [Decoder EXCEPT !.commands = <<>>,
                                     !.current_colour = InitialColour(crate)],
                            raw, <<>>)
           recover == r.res.kind = "Err" /\ caller = "system"
           d2 == IF recover THEN M8Reset(r.d) ELSE r.d
       IN  /\ buffer' = d2.buffer
           /\ state' = d2.state
           /\ current_colour' = d2.current_colour
           /\ commands' = d2.commands
           /\ result' = r.res
           /\ fault' = (r.res.kind = "Panic")
           /\ packets' = r.handed
           /\ input' = r.rest
    /\ payload' = raw
    /\ UNCHANGED <<crate, caller, iterating, byte, was, esc_was, before, ctx, last8>>

\* bevy_m8: M8Decoder::decode(raw), and for the system fn decode the reset
\* of the slip decoder in its Err arm.
DecodeCycle(raw) ==
    /\ crate = "bevy_m8"
    /\ ~fault
    /\ ~iterating
    /\ Len(buffer) + Len(raw) <= MaxBuffered
    /\ LET r == DecodeBytes(crate, [Decoder EXCEPT !.commands = <<>>], raw, <<>>)
           recover == r.res.kind = "Err" /\ caller = "system"
           d2 == IF recover THEN M8Reset(r.d) ELSE r.d
       IN  /\ buffer' = d2.buffer
           /\ state' = d2.state
           /\ current_colour' = d2.current_colour
           /\ commands' = d2.commands
           /\ result' = r.res
           /\ fault' = (r.res.kind = "Panic")
           /\ packets' = r.handed
           /\ input' = r.rest
    /\ payload' = raw
    /\ UNCHANGED <<crate, caller, iterating, byte, was, esc_was, before, ctx, last8>>

\* A decode call that goes on from what the earlier call left, against
\* which the reset at the start of the call is compared.
SlipDecodeCycleGoingOn(raw) ==
    /\ crate = "bevy_dirtywave_m8"
    /\ ~fault
    /\ ~iterating
    /\ LET r == DecodeBytes(crate, Decoder, raw, <<>>)
       IN  /\ buffer' = r.d.buffer
           /\ state' = r.d.state
           /\ result' = r.res
           /\ packets' = r.handed
           /\ input' = r.rest
    /\ payload' = raw
    /\ UNCHANGED <<crate, caller, current_colour, commands, iterating, fault, byte,
                   was, esc_was, before, ctx, last8>>

\* bevy_dirtywave_m8: SlipDecoder::decode(raw).
SlipDecodeCycle(raw) ==
    /\ crate = "bevy_dirtywave_m8"
    /\ ~fault
    /\ ~iterating
    /\ LET r == DecodeBytes(crate, SlipReset(Decoder), raw, <<>>)
       IN  /\ buffer' = r.d.buffer
           /\ state' = r.d.state
           /\ result' = r.res
           /\ packets' = r.handed
           /\ input' = r.rest
    /\ payload' = raw
    /\ UNCHANGED <<crate, caller, current_colour, commands, iterating, fault, byte,
                   was, esc_was, before, ctx, last8>>

\* bevy_dirtywave_m8: M8CommandDecoder::process(raw).  What the call leaves
\* unfed are the pieces after the one that was rejected.
ProcessCycle(raw) ==
    /\ crate = "bevy_dirtywave_m8"
    /\ ~fault
    /\ ~iterating
    /\ LET r == ProcessBuf(raw)
           pieces == SelectSeq(Split(raw), LAMBDA q : q # <<>>)
       IN  /\ commands' = r.commands
           /\ current_colour' = r.colour
           /\ result' = r.res
           /\ fault' = (r.res.kind = "Panic")
           /\ packets' = r.handed
           /\ input' = Concat(SubSeq(pieces, Len(r.handed) + 1, Len(pieces)))
    /\ payload' = raw
    /\ UNCHANGED <<crate, caller, buffer, state, iterating, byte, was, esc_was,
                   before, ctx, last8>>

InitCycle == Init

NextCycle ==
    \/ \E raw \in Cycles : DecodeCycle(raw) /\ UNCHANGED <<twin, app>>
    \/ \E raw \in Cycles : SlipDecodeCycle(raw) /\ UNCHANGED <<twin, app>>
    \/ \E raw \in Cycles : ProcessCycle(raw) /\ UNCHANGED <<twin, app>>

SpecCycle == InitCycle /\ [][NextCycle]_vars

(***************************************************************************)
(* Read cycles whose slices hold whole frames, several to a slice, and a   *)
(* frame cut short by an invalid escape.                                   *)
(***************************************************************************)
Frames == {RectangleFrame, WaveformFrame, MalformedCharacterFrame, BadEscape}

FrameCycles == {Concat(ss) : ss \in UNION {[1..n -> Frames] : n \in 1..MaxSegments}}

InitFrames == Init

NextFrames ==
    \/ \E raw \in FrameCycles : DecodeCycle(raw) /\ UNCHANGED <<twin, app>>
    \/ \E raw \in FrameCycles : ProcessCycle(raw) /\ UNCHANGED <<twin, app>>

SpecFrames == InitFrames /\ [][NextFrames]_vars

(***************************************************************************)
(* A session: decode calls on single slices, some of which end in the      *)
(* middle of a frame or of an escape pair, the resets of the decoders and  *)
(* the construction of new ones.                                           *)
(***************************************************************************)
\* A length-5 rectangle with its SLIP_END.
PositionFrame == <<DRAW_RECTANGLE_COMMAND, 20, 0, 40, 0, SLIP_END>>

\* RectangleFrame cut after its position.
RectangleHead == <<DRAW_RECTANGLE_COMMAND, 20, 0, 40, 0>>

RectangleTail == <<1, 2, 3, SLIP_END>>

\* A length-8 rectangle at x = 219, cut between SLIP_ESC and SLIP_ESC_ESC.
EscapeHead == <<DRAW_RECTANGLE_COMMAND, SLIP_ESC>>

EscapeTail == <<SLIP_ESC_ESC, 0, 40, 0, 1, 2, 3, SLIP_END>>

Slices ==
    {RectangleFrame, WaveformFrame, PositionFrame, MalformedCharacterFrame,
     RectangleHead, RectangleTail, EscapeHead, EscapeTail,
     <<SLIP_ESC>>, <<SLIP_ESC_END>>}

\* M8SlipDecoder::reset and M8CommandDecoder::reset; SlipDecoder::reset (the
\* command decoder of bevy_dirtywave_m8 has no reset).
Reset ==
    /\ ~fault
    /\ ~iterating
    /\ IF crate = "bevy_m8"
       THEN /\ buffer' = M8Reset(Decoder).buffer
            /\ state' = M8Reset(Decoder).state
            /\ commands' = <<>>
       ELSE /\ buffer' = SlipReset(Decoder).buffer
            /\ state' = SlipReset(Decoder).state
            /\ UNCHANGED commands
    /\ UNCHANGED <<crate, caller, current_colour, iterating, result, fault, byte,
                   was, esc_was, before, packets, ctx, last8, payload, input>>

\* A state other than Normal, against which the constructors are compared.
NewDecoderEscaped(c) ==
    [buffer |-> <<>>, state |-> "Escaped", capacity |-> SLIP_BUFFER_CAPACITY,
     current_colour |-> InitialColour(c), commands |-> <<>>]

\* M8Decoder::new (M8SlipDecoder::new, M8CommandDecoder::new);
\* SlipDecoder::new(capacity) and M8CommandDecoder::new.
NewDecoder(c) ==
    [buffer |-> <<>>, state |-> "Normal", capacity |-> SLIP_BUFFER_CAPACITY,
     current_colour |-> InitialColour(c), commands |-> <<>>]

\* insert_resource(M8Decoder::new()): a new decoder takes the place of the
\* old one, and a new session starts.
New ==
    /\ ~iterating
    /\ buffer' = NewDecoder(crate).buffer
    /\ state' = NewDecoder(crate).state
    /\ current_colour' = NewDecoder(crate).current_colour
    /\ commands' = NewDecoder(crate).commands
    /\ result' = OkResult
    /\ fault' = FALSE
    /\ byte' = NoByte
    /\ was' = "Normal"
    /\ esc_was' = "none"
    /\ before' = <<>>
    /\ packets' = <<>>
    /\ ctx' = NewDecoder(crate).current_colour
    /\ last8' = <<>>
    /\ payload' = <<>>
    /\ input' = <<>>
    /\ UNCHANGED <<crate, caller, iterating>>

InitSession == Init

NextSession ==
    \/ \E raw \in Slices :
         Len(buffer) + Len(raw) <= MaxHeld /\ DecodeCycle(raw) /\ UNCHANGED <<twin, app>>
    \/ \E raw \in Slices : SlipDecodeCycle(raw) /\ UNCHANGED <<twin, app>>
    \/ \E raw \in Slices : ProcessCycle(raw) /\ UNCHANGED <<twin, app>>
    \/ Reset /\ UNCHANGED <<twin, app>>
    \/ New /\ UNCHANGED <<twin, app>>

SpecSession == InitSession /\ [][NextSession]_vars

(***************************************************************************)
(* End to end: the first decode call of a session, on the frame of one     *)
(* length-5 rectangle.                                                     *)
(***************************************************************************)
\* The values of the coordinate bytes: among them the two a frame escapes.
Coordinates == {0, 20, 40, SLIP_END, SLIP_ESC}

\* The frame of the rectangle packet [0xFE, xl, xh, yl, yh].
FrameOf(xl, xh, yl, yh) ==
    escaped(<<DRAW_RECTANGLE_COMMAND, xl, xh, yl, yh>>) \o <<SLIP_END>>

\* M8Decoder::new().decode(frame); M8CommandDecoder::new().process(frame).
EndToEnd(xl, xh, yl, yh) ==
    /\ payload = <<>>
    /\ \/ DecodeCycle(FrameOf(xl, xh, yl, yh))
       \/ ProcessCycle(FrameOf(xl, xh, yl, yh))

InitEndToEnd == Init

NextEndToEnd ==
    \/ \E xl, xh, yl, yh \in Coordinates : EndToEnd(xl, xh, yl, yh) /\ UNCHANGED <<twin, app>>
    \/ New /\ UNCHANGED <<twin, app>>

SpecEndToEnd == InitEndToEnd /\ [][NextEndToEnd]_vars

(***************************************************************************)
(* Two decoders.  The second one (twin) is fed the slices the first one    *)
(* is fed, in the same order, at most MaxAhead slices later.               *)
(***************************************************************************)
TwinSlices ==
    {RectangleFrame, PositionFrame, MalformedCharacterFrame, RectangleHead,
     RectangleTail}

TwinDecoder ==
    [buffer |-> twin.buffer, state |-> twin.state,
     current_colour |-> twin.current_colour, commands |-> twin.commands]

\* The decode call of the revision on the decoder d: M8Decoder::decode (and
\* the Err arm of the system fn decode), M8CommandDecoder::process.
DecodeOn(d, raw) ==
    IF crate = "bevy_m8"
    THEN LET r == DecodeBytes(crate, [d EXCEPT !.commands = <<>>], raw, <<>>)
             recover == r.res.kind = "Err" /\ caller = "system"
         IN  [d |-> IF recover THEN M8Reset(r.d) ELSE r.d, res |-> r.res]
    ELSE LET r == ProcessPieces(SelectSeq(Split(raw), LAMBDA q : q # <<>>),
                                [colour |-> d.current_colour, commands |-> <<>>,
                                 res |-> OkResult, handed |-> <<>>, ctx |-> ctx,
                                 last8 |-> last8])
         IN  [d |-> [d EXCEPT !.current_colour = r.colour, !.commands = r.commands],
              res |-> r.res]

\* A colour context that the two decoders share, against which their
\* independence is compared.
FeedMainSharedColour(raw) ==
    /\ Len(twin.behind) < MaxAhead
    /\ Len(buffer) + Len(raw) <= MaxHeld
    /\ DecodeCycle(raw) \/ ProcessCycle(raw)
    /\ twin' = [twin EXCEPT !.behind = Append(@, raw),
                            !.current_colour = current_colour']
    /\ UNCHANGED app

\* A decode call of the first decoder: &mut self is all it writes.
FeedMain(raw) ==
    /\ Len(twin.behind) < MaxAhead
    /\ Len(buffer) + Len(raw) <= MaxHeld
    /\ DecodeCycle(raw) \/ ProcessCycle(raw)
    /\ twin' = [twin EXCEPT !.behind = Append(@, raw)]
    /\ UNCHANGED app

\* A decode call of the second decoder on the next slice it is due.
FeedTwin ==
    /\ twin.behind # <<>>
    /\ LET o == DecodeOn(TwinDecoder, Head(twin.behind))
       IN  twin' = [buffer |-> o.d.buffer, state |-> o.d.state,
                    current_colour |-> o.d.current_colour,
                    commands |-> o.d.commands, result |-> o.res,
                    behind |-> Tail(twin.behind)]
    /\ UNCHANGED <<crate, caller, buffer, state, current_colour, commands, iterating,
                   result, fault, byte, was, esc_was, before, packets, ctx, last8,
                   payload, input, app>>

InitTwin == Init

NextTwin ==
    \/ \E raw \in TwinSlices : FeedMain(raw)
    \/ FeedTwin

SpecTwin == InitTwin /\ [][NextTwin]_vars

(***************************************************************************)
(* The slip decoder of bevy_dirtywave_m8 alone: decode calls on every      *)
(* stream of at most MaxStream bytes.                                      *)
(***************************************************************************)
Streams == UNION {[1..n -> Bytes] : n \in 1..MaxStream}

InitSlip == Init

NextSlip == \E raw \in Streams : SlipDecodeCycle(raw) /\ UNCHANGED <<twin, app>>

SpecSlip == InitSlip /\ [][NextSlip]_vars

(***************************************************************************)
(* The input system of bevy_m8 (display.rs), run once an update frame      *)
(* while the loading state is Running.  keys is the ButtonInput<KeyCode>   *)
(* of the frame, tx the messages handed to connection.tx.send, in order.   *)
(***************************************************************************)
\* vec![b'E'], vec![b'R'] and vec![b'C', mask].
EnableMessage == <<69>>
ResetMessage == <<82>>
ControlMessage(mask) == <<67, mask>>

\* mask |= bit, on a u8.
BitOr(mask, bit) == IF (mask \div bit) % 2 = 1 THEN mask ELSE mask + bit

\* The mask of the keys held in a frame, in the order of the ifs.
FrameMask(pressed) ==
    LET m1 == IF "KeyZ" \in pressed THEN BitOr(0, M8_EDIT) ELSE 0
        m2 == IF "KeyX" \in pressed THEN BitOr(m1, M8_OPTION) ELSE m1
        m3 == IF "KeyF" \in pressed THEN BitOr(m2, M8_RIGHT) ELSE m2
        m4 == IF "KeyB" \in pressed THEN BitOr(m3, M8_LEFT) ELSE m3
        m5 == IF "KeyN" \in pressed THEN BitOr(m4, M8_DOWN) ELSE m4
        m6 == IF "KeyP" \in pressed THEN BitOr(m5, M8_UP) ELSE m5
        m7 == IF "ControlLeft" \in pressed THEN BitOr(m6, M8_SELECT) ELSE m6
        m8 == IF "ShiftLeft" \in pressed THEN BitOr(m7, M8_START) ELSE m7
    IN  m8

\* The keys the frames of the model hold: two keys of the mask and the
\* two command keys.
HeldKeys == {"KeyZ", "KeyB", "KeyE", "KeyR"}

\* ButtonInput<KeyCode>: a key just pressed is pressed.
FrameKeys ==
    {k \in [pressed : SUBSET HeldKeys, just_pressed : SUBSET HeldKeys] :
        k.just_pressed \subseteq k.pressed}

\* The system that forgets the mask it sent, against which the record in
\* prev_mask is compared.
InputSystemForgetting(k) ==
    /\ crate = "bevy_m8"
    /\ app.loading_state = "Running"
    /\ LET e == IF "KeyE" \in k.just_pressed THEN <<EnableMessage>> ELSE <<>>
           r == IF "KeyR" \in k.just_pressed THEN <<ResetMessage>> ELSE <<>>
           mask == FrameMask(k.pressed)
           c == IF mask # app.prev_mask THEN <<ControlMessage(mask)>> ELSE <<>>
       IN  /\ Len(app.tx) + Len(e) + Len(r) + Len(c) <= MaxSent
           /\ app' = [app EXCEPT !.keys = k, !.tx = @ \o e \o r \o c]
    /\ UNCHANGED <<crate, caller, buffer, state, current_colour, commands, iterating,
                   result, fault, byte, was, esc_was, before, packets, ctx, last8,
                   payload, input, twin>>

\* fn input, on the keys of one frame.
InputSystem(k) ==
    /\ crate = "bevy_m8"
    /\ app.loading_state = "Running"
    /\ LET e == IF "KeyE" \in k.just_pressed THEN <<EnableMessage>> ELSE <<>>
           r == IF "KeyR" \in k.just_pressed THEN <<ResetMessage>> ELSE <<>>
           mask == FrameMask(k.pressed)
           c == IF mask # app.prev_mask THEN <<ControlMessage(mask)>> ELSE <<>>
       IN  /\ Len(app.tx) + Len(e) + Len(r) + Len(c) <= MaxSent
           /\ app' = [app EXCEPT !.keys = k,
                                 !.tx = @ \o e \o r \o c,
                                 !.prev_mask = IF mask # @ THEN mask ELSE @]
    /\ UNCHANGED <<crate, caller, buffer, state, current_colour, commands, iterating,
                   result, fault, byte, was, esc_was, before, packets, ctx, last8,
                   payload, input, twin>>

\* A frame before the collection is loaded: run_if keeps the system out.
LoadingFrame(k) ==
    /\ crate = "bevy_m8"
    /\ app.loading_state = "Loading"
    /\ app' = [app EXCEPT !.keys = k]
    /\ UNCHANGED <<crate, caller, buffer, state, current_colour, commands, iterating,
                   result, fault, byte, was, esc_was, before, packets, ctx, last8,
                   payload, input, twin>>

\* continue_to_state(M8LoadingState::Running).
ContinueToRunning ==
    /\ crate = "bevy_m8"
    /\ app.loading_state = "Loading"
    /\ app' = [app EXCEPT !.loading_state = "Running"]
    /\ UNCHANGED <<crate, caller, buffer, state, current_colour, commands, iterating,
                   result, fault, byte, was, esc_was, before, packets, ctx, last8,
                   payload, input, twin>>

InitInput == Init /\ crate = "bevy_m8" /\ caller = "system"

NextInput ==
    \/ \E k \in FrameKeys : InputSystem(k)
    \/ \E k \in FrameKeys : LoadingFrame(k)
    \/ ContinueToRunning

SpecInput == InitInput /\ [][NextInput]_vars

(***************************************************************************)
(* The remote key events of bevy_m8 (remote.rs): the observer              *)
(* input_from_event and the Update system flush_keyboard_event_queue.      *)
(* A KeyboardInput is its key_code and state; logical_key, text, repeat    *)
(* and window are the same in every input built here.  keyboard_events is  *)
(* what the MessageWriter was given, in order.  The events are the three   *)
(* key events; Disconnect, Enable and Reset are todo!().                   *)
(***************************************************************************)
KeyboardInput(key_code, st) == [key_code |-> key_code, state |-> st]

\* M8KeyMap::default().
M8KeyMapDefault ==
    [edit |-> "KeyZ", option |-> "KeyX", right |-> "KeyF", left |-> "KeyB",
     up |-> "KeyP", down |-> "KeyN", select |-> "ControlLeft", start |-> "ShiftLeft"]

\* (mask & bit) != 0, on a u8.
BitSet(mask, bit) == (mask \div bit) % 2 = 1

\* utils.rs: the Pressed inputs of the keys of a mask, in the order of the ifs.
mask_to_keyboard_input(mask, key_map) ==
    LET one(bit, key_code) ==
            IF BitSet(mask, bit) THEN <<KeyboardInput(key_code, "Pressed")>> ELSE <<>>
    IN  one(M8_EDIT, key_map.edit) \o one(M8_OPTION, key_map.option)
        \o one(M8_RIGHT, key_map.right) \o one(M8_LEFT, key_map.left)
        \o one(M8_DOWN, key_map.down) \o one(M8_UP, key_map.up)
        \o one(M8_SELECT, key_map.select) \o one(M8_START, key_map.start)

\* KeyboardInput { state: ButtonState::Released, ..keyboard_input.clone() },
\* for every input of a sequence.
Released(inputs) == [i \in 1..Len(inputs) |-> [inputs[i] EXCEPT !.state = "Released"]]

\* The masks the remote events of the model carry.
RemoteMasks == {0, M8_EDIT, M8_START, M8_EDIT + M8_LEFT}

M8Events ==
    {[kind |-> k, mask |-> m] : k \in {"KeyHold", "KeyPress", "KeyRelease"},
                                m \in RemoteMasks}

\* fn input_from_event.
input_from_event(event) ==
    /\ crate = "bevy_m8"
    /\ LET inputs == mask_to_keyboard_input(event.mask, M8KeyMapDefault)
           written == CASE event.kind = "KeyHold" -> inputs
                        [] event.kind = "KeyPress" -> inputs
                        [] event.kind = "KeyRelease" -> Released(inputs)
           queued == IF event.kind = "KeyPress" THEN Released(inputs) ELSE <<>>
       IN  /\ Len(app.keyboard_events) + Len(app.event_queue)
                + Len(written) + Len(queued) <= MaxWritten
           /\ app' = [app EXCEPT !.keyboard_events = @ \o written,
                                 !.event_queue = @ \o queued]
    /\ UNCHANGED <<crate, caller, buffer, state, current_colour, commands, iterating,
                   result, fault, byte, was, esc_was, before, packets, ctx, last8,
                   payload, input, twin>>

\* A sequence back to front: what pop_back gives until None.
RECURSIVE Reversed(_)
Reversed(q) == IF q = <<>> THEN <<>> ELSE <<q[Len(q)]>> \o Reversed(SubSeq(q, 1, Len(q) - 1))

\* A flush that pops one input a run, against which the while let is
\* compared.
flush_one_keyboard_event ==
    /\ crate = "bevy_m8"
    /\ IF app.event_queue = <<>>
       THEN UNCHANGED app
       ELSE app' = [app EXCEPT
                      !.keyboard_events = Append(@, app.event_queue[Len(app.event_queue)]),
                      !.event_queue = SubSeq(@, 1, Len(@) - 1)]
    /\ UNCHANGED <<crate, caller, buffer, state, current_colour, commands, iterating,
                   result, fault, byte, was, esc_was, before, packets, ctx, last8,
                   payload, input, twin>>

\* fn flush_keyboard_event_queue.
flush_keyboard_event_queue ==
    /\ crate = "bevy_m8"
    /\ app' = [app EXCEPT !.keyboard_events = @ \o Reversed(app.event_queue),
                          !.event_queue = <<>>]
    /\ UNCHANGED <<crate, caller, buffer, state, current_colour, commands, iterating,
                   result, fault, byte, was, esc_was, before, packets, ctx, last8,
                   payload, input, twin>>

InitRemote == Init /\ crate = "bevy_m8" /\ caller = "system"

NextRemote ==
    \/ \E event \in M8Events : input_from_event(event)
    \/ flush_keyboard_event_queue

\* flush_keyboard_event_queue is in the Update schedule: it runs every frame.
SpecRemote ==
    InitRemote /\ [][NextRemote]_vars /\ WF_vars(flush_keyboard_event_queue)

(***************************************************************************)
(* Claims about the framer.                                                *)
(***************************************************************************)
NotEscape == Bytes \ {SLIP_ESC_END, SLIP_ESC_ESC}

\* C1: round-trip framing: once escaped(P) followed by SLIP_END has been fed
\* to a fresh decoder (state Normal, empty buffer), exactly one packet has
\* been handed to the command layer and it equals P byte for byte.
C1_RoundTrip ==
    (input = <<>> /\ byte = SLIP_END /\ Len(payload) <= Capacity)
        => packets = <<payload>>

\* C2: a SLIP_END received in Normal with an empty buffer hands no packet
\* to the command layer, adds no command, is no error and no fault, and
\* leaves the framer in Normal with an empty buffer.
C2_EmptyFrameEndHarmless ==
    [][(DecodeByte(SLIP_END) /\ state = "Normal" /\ buffer = <<>>)
         => /\ ~fault'
            /\ result' = OkResult
            /\ packets' = packets
            /\ commands' = commands
            /\ state' = "Normal"
            /\ buffer' = <<>>]_vars

\* C3: a SLIP_END received in Normal with a non-empty buffer hands the
\* buffer contents to the command layer as one packet, and right after it
\* the buffer is empty and the state is Normal.
C3_FrameEndEmits ==
    [][(DecodeByte(SLIP_END) /\ state = "Normal" /\ buffer # <<>>)
         => /\ packets' = Append(packets, buffer)
            /\ buffer' = <<>>
            /\ state' = "Normal"]_vars

\* C4: in Escaped, a byte b other than SLIP_ESC_END and SLIP_ESC_ESC clears
\* the buffer, returns the framer to Normal and reports
\* UnknownEscapedByte(b); the partial packet is dropped: nothing is handed
\* to the command layer and no command is added.
C4_UnknownEscapedByte ==
    [][\A b \in NotEscape :
         (DecodeByte(b) /\ state = "Escaped")
           => /\ buffer' = <<>>
              /\ state' = "Normal"
              /\ result' = ErrResult(Error("UnknownEscapedByte", b))
              /\ packets' = packets
              /\ commands' = commands
              /\ ~fault']_vars

\* C4 witness: an invalid escaped byte arrived while a partial packet was
\* buffered, and the buffer is now empty.
C4_Witness ==
    /\ was = "Escaped"
    /\ byte \in NotEscape
    /\ before # <<>>
    /\ buffer = <<>>
    /\ result = ErrResult(Error("UnknownEscapedByte", byte))

\* C5 as stated: after SLIP_ESC followed by a byte outside
\* {SLIP_ESC_END, SLIP_ESC_ESC}, whatever state the SLIP_ESC arrived in,
\* the framer is in Normal with an empty buffer.
C5_ResyncFromAnyState ==
    (esc_was # "none" /\ byte \in NotEscape) => (state = "Normal" /\ buffer = <<>>)

\* C5 amended: after SLIP_ESC received in Normal (any buffer contents)
\* followed by a byte outside {SLIP_ESC_END, SLIP_ESC_ESC}, the framer is
\* in Normal with an empty buffer.
C5_ResyncFromNormal ==
    (esc_was = "Normal" /\ byte \in NotEscape) => (state = "Normal" /\ buffer = <<>>)

\* C5 witness: the resync dropped a non-empty buffer.
C5_Witness ==
    /\ esc_was = "Normal"
    /\ byte \in NotEscape
    /\ before # <<>>
    /\ buffer = <<>>
    /\ state = "Normal"

\* C6: the accumulation buffer never holds more bytes than the configured
\* capacity.
C6_BufferWithinCapacity ==
    Len(buffer) <= (IF crate = "bevy_m8" THEN SLIP_BUFFER_CAPACITY ELSE Capacity)

NonSpecial == Bytes \ {SLIP_END, SLIP_ESC, SLIP_ESC_END, SLIP_ESC_ESC}

\* C7: a non-special byte fed when the buffer already holds capacity many
\* non-special bytes (the byte that makes it more than capacity of them
\* without a SLIP_END) is answered with BufferOverflow, and after it the
\* buffer is empty and the state is Normal.
C7_OverflowReported ==
    [][\A b \in NonSpecial :
         (DecodeByte(b) /\ state = "Normal"
            /\ \A i \in 1..Len(buffer) : buffer[i] \in NonSpecial
            /\ Len(buffer) >= (IF crate = "bevy_m8" THEN SLIP_BUFFER_CAPACITY ELSE Capacity))
           => /\ result' = ErrResult(Error("BufferOverflow", NoByte))
              /\ buffer' = <<>>
              /\ state' = "Normal"]_vars

(***************************************************************************)
(* Claims about the rectangle command, over SpecParser.  After a step the  *)
(* packet just parsed is packets[1], the command it produced commands[1],  *)
(* ctx the colour context before the parse and current_colour the context  *)
(* after it.                                                               *)
(***************************************************************************)
RectPacket(n) ==
    /\ packets # <<>>
    /\ Len(packets[1]) = n
    /\ packets[1][1] = DRAW_RECTANGLE_COMMAND

\* The colour value of the revision in use with channels r, g, b.
ColourOf(r, g, b) ==
    IF crate = "bevy_m8"
    THEN [red |-> r, green |-> g, blue |-> b, alpha |-> 255]
    ELSE [r |-> r, g |-> g, b |-> b]

Rect(x, y, w, h, c) ==
    [type |-> "DrawRectangle", pos |-> [x |-> x, y |-> y],
     size |-> [width |-> w, height |-> h], colour |-> c]

\* C8: a tag-0xFE packet of length 5 parses to DrawRectangle with pos from
\* bytes[1..5] little-endian, size 1x1 and the current colour context; one
\* of length 9 parses to DrawRectangle with pos from bytes[1..5], size from
\* bytes[5..9] and the current colour context; neither changes the context.
C8_ShortRectangles ==
    LET p == packets[1] IN
    /\ RectPacket(5) =>
         /\ result = OkResult
         /\ commands = <<Rect(p[2] + 256 * p[3], p[4] + 256 * p[5], 1, 1, ctx)>>
         /\ current_colour = ctx
    /\ RectPacket(9) =>
         /\ result = OkResult
         /\ commands = <<Rect(p[2] + 256 * p[3], p[4] + 256 * p[5],
                              p[6] + 256 * p[7], p[8] + 256 * p[9], ctx)>>
         /\ current_colour = ctx

\* A length-9 rectangle parsed under a context an earlier packet had set,
\* with a position whose high bytes are not zero.
C8_Witness ==
    /\ RectPacket(9)
    /\ commands # <<>>
    /\ commands[1].pos.y > 255
    /\ commands[1].size.width > 255
    /\ ctx # InitialColour(crate)
    /\ commands[1].colour = ctx
    /\ current_colour = ctx

\* C9: a tag-0xFE packet of length 8 with embedded colour C' = bytes[5..8]
\* parses to DrawRectangle with size 1x1 and colour C' and sets the colour
\* context to C'; every later length-5 or length-9 rectangle, until the
\* next length-8 or length-12 rectangle, is emitted with colour C'.
C9_InlineColourCarries ==
    LET p == packets[1] IN
    /\ RectPacket(8) =>
         /\ result = OkResult
         /\ commands = <<Rect(p[2] + 256 * p[3], p[4] + 256 * p[5], 1, 1,
                              ColourOf(p[6], p[7], p[8]))>>
         /\ current_colour = ColourOf(p[6], p[7], p[8])
    /\ ((RectPacket(5) \/ RectPacket(9)) /\ last8 # <<>>) =>
         /\ commands # <<>>
         /\ commands[1].colour = ColourOf(last8[1], last8[2], last8[3])

\* A length-5 rectangle emitted with the colour of an earlier length-8 one,
\* that colour being neither the initial context nor a palindrome of bytes.
C9_Witness ==
    /\ RectPacket(5)
    /\ last8 # <<>>
    /\ last8[1] # last8[3]
    /\ commands # <<>>
    /\ commands[1].colour = ColourOf(last8[1], last8[2], last8[3])
    /\ commands[1].colour # InitialColour(crate)

\* C10: a tag-0xFE packet of length 12 parses to DrawRectangle with pos from
\* bytes[1..5], size from bytes[5..9] and colour from the last three bytes,
\* bytes[9..12], and sets the colour context to that colour.
C10_LongRectangleColour ==
    LET p == packets[1] IN
    RectPacket(12) =>
         /\ result = OkResult
         /\ commands = <<Rect(p[2] + 256 * p[3], p[4] + 256 * p[5],
                              p[6] + 256 * p[7], p[8] + 256 * p[9],
                              ColourOf(p[10], p[11], p[12]))>>
         /\ current_colour = ColourOf(p[10], p[11], p[12])

(***************************************************************************)
(* Claims about the other commands and the parser's errors, over           *)
(* SpecParser.  The spec's error names stand for the values each revision  *)
(* returns: bevy_m8 has one M8DecodeError variant per command, while       *)
(* bevy_dirtywave_m8 returns the one M8CommandError::InvalidCommand for    *)
(* every failed length validation.                                         *)
(***************************************************************************)
TagPacket(t) ==
    /\ packets # <<>>
    /\ packets[1] # <<>>
    /\ packets[1][1] = t

RectangleInvalidFormat ==
    IF crate = "bevy_m8" THEN Error("DrawRectangleInvalidFormat", NoByte)
    ELSE Error("InvalidCommand", NoByte)

WaveformInvalidFormat ==
    IF crate = "bevy_m8" THEN Error("DrawOscilloscopeWaveformInvalidFormat", NoByte)
    ELSE Error("InvalidCommand", NoByte)

CharacterInvalidFormat ==
    IF crate = "bevy_m8" THEN Error("DrawCharacterInvalidFormat", NoByte)
    ELSE Error("InvalidCommand", NoByte)

C12_ColourContextChanges ==
    [][current_colour' # current_colour =>
         /\ (RectPacket(8) \/ RectPacket(12))'
         /\ result' = OkResult]_vars

\* A character packet parsed under a context that an earlier rectangle had
\* set, the context left as it was.
C12_Witness ==
    /\ TagPacket(DRAW_CHARACTER_COMMAND)
    /\ result = OkResult
    /\ ctx # InitialColour(crate)
    /\ current_colour = ctx

KnownTags == {KEY_PRESS_STATE_COMMAND, DRAW_OSCILLOSCOPE_WAVEFORM_COMMAND,
              DRAW_CHARACTER_COMMAND, DRAW_RECTANGLE_COMMAND, SYSTEM_INFO_COMMAND}

\* C15: a tag-0xFF packet shorter than 6 bytes is rejected with
\* SystemInfoInvalidFormat, an error value and not an out-of-bounds read; a
\* packet of at least 6 bytes yields SystemInfo with hardware_type, major,
\* minor, patch, font_mode = bytes[1..6].
C15_SystemInfoLength ==
    LET p == packets[1] IN
    TagPacket(SYSTEM_INFO_COMMAND) =>
        IF Len(p) < 6
        THEN /\ ~fault
             /\ result = ErrResult(Error("SystemInfoInvalidFormat", NoByte))
             /\ commands = <<>>
        ELSE /\ result = OkResult
             /\ commands = <<[type |-> "SystemInfo", hardware_type |-> p[2],
                              major |-> p[3], minor |-> p[4], patch |-> p[5],
                              font_mode |-> p[6]]>>

\* C16: the command parser rejects an empty packet before reading the tag
\* byte: parsing it returns an error value and never an index fault.
C16_EmptyPacketRejected ==
    (packets # <<>> /\ packets[1] = <<>>) =>
        /\ ~fault
        /\ result.kind = "Err"
        /\ commands = <<>>

\* C17: a packet whose tag is 0xFB (key-press state) is ignored: parsing it
\* is not an error, produces no command and does not stop the decoding.
C17_KeyPressIgnored ==
    TagPacket(KEY_PRESS_STATE_COMMAND) =>
        /\ ~fault
        /\ result = OkResult
        /\ commands = <<>>

\* C18: a non-empty packet whose first byte is not one of the known tags
\* yields UnrecognizedCommand(tag) carrying that first byte, and no command
\* is appended for it.
C18_UnrecognizedCommand ==
    (packets # <<>> /\ packets[1] # <<>> /\ packets[1][1] \notin KnownTags) =>
        /\ ~fault
        /\ result = ErrResult(Error("UnrecognizedCommand", packets[1][1]))
        /\ commands = <<>>

(***************************************************************************)
(* Claims about whole read cycles, over SpecCycle.                         *)
(***************************************************************************)
\* The well-formed frames of Segments with the command each stands for.
GoodFrames ==
    {[bytes |-> RectangleFrame, command |-> Rect(20, 40, 1, 1, ColourOf(1, 2, 3))],
     [bytes |-> WaveformFrame,
      command |-> [type |-> "DrawOscilloscopeWaveform", colour |-> ColourOf(1, 2, 3),
                   waveform |-> <<4>>]]}

ParserErrors == {"DrawRectangleInvalidFormat", "DrawCharacterInvalidFormat",
                 "DrawOscilloscopeWaveformInvalidFormat", "SystemInfoInvalidFormat",
                 "InvalidCommand", "UnrecognizedCommand"}

FramerErrors == {"UnknownEscapedByte", "BufferOverflow"}

\* C19: a cycle buffer holding one character packet of the wrong length
\* followed by one valid rectangle packet yields a command list of length 1
\* holding only the rectangle command, with CharacterInvalidFormat
\* reported; in general a packet the parser rejects does not stop the
\* decoding of the later packets of the cycle: no byte of the slice is left
\* unfed.
C19_ParserErrorIsolated ==
    /\ \A g \in GoodFrames :
         (payload = MalformedCharacterFrame \o g.bytes /\ packets # <<>>
            /\ packets[1] = <<DRAW_CHARACTER_COMMAND, 65>>) =>
             /\ commands = <<g.command>>
             /\ result = ErrResult(CharacterInvalidFormat)
    /\ (result.kind = "Err" /\ result.error.err \in ParserErrors) => input = <<>>

\* C20: when a framer error (UnknownEscapedByte or BufferOverflow) occurs in
\* the middle of a cycle's buffer only the frame in progress is dropped:
\* the bytes after the error are still fed in the same cycle, and a later
\* well-formed frame of that buffer produces its command.
C20_FramerErrorIsolated ==
    /\ \A g \in GoodFrames :
         (crate = "bevy_m8" /\ payload = BadEscape \o g.bytes) =>
             commands = <<g.command>>
    /\ (result.kind = "Err" /\ result.error.err \in FramerErrors) => input = <<>>

(***************************************************************************)
(* Claims about a session, over SpecSession.                               *)
(***************************************************************************)
\* The number of SLIP_END bytes of a slice.
RECURSIVE Ends(_)
Ends(raw) ==
    IF raw = <<>> THEN 0
    ELSE (IF Head(raw) = SLIP_END THEN 1 ELSE 0) + Ends(Tail(raw))

\* The tag byte of the packet a command is decoded from.
TagOf(command) ==
    CASE command.type = "DrawRectangle" -> DRAW_RECTANGLE_COMMAND
      [] command.type = "DrawCharacter" -> DRAW_CHARACTER_COMMAND
      [] command.type = "DrawOscilloscopeWaveform" -> DRAW_OSCILLOSCOPE_WAVEFORM_COMMAND
      [] OTHER -> SYSTEM_INFO_COMMAND

\* C21: the command list is cleared at the start of every cycle: after a
\* decode call on the slice raw the list holds only commands of packets
\* handed to the parser during that call, at most one for each SLIP_END of
\* raw, and none from an earlier cycle.
C21_ListHoldsThisCycleOnly ==
    [][\A raw \in Slices :
         (DecodeCycle(raw) \/ ProcessCycle(raw)) =>
             /\ Len(commands') <= Ends(raw)
             /\ Len(commands') <= Len(packets')
             /\ \A i \in 1..Len(commands') : TagOf(commands'[i]) = packets'[i][1]]_vars

(***************************************************************************)
(* The order of the command list, over SpecFrames.                         *)
(***************************************************************************)
\* A frame without its SLIP_END: the packet the parser is handed.
Body(frame) == SubSeq(frame, 1, Len(frame) - 1)

\* C22: within one cycle the commands of the list are in the order in which
\* their packets arrived: when the packet of frame A was completed before
\* the packet of frame B and both were parsed, the command of A precedes
\* the command of B.
C22_ArrivalOrder ==
    \A A, B \in GoodFrames :
      \A i, j \in 1..Len(commands) :
        (/\ i < j
         /\ j <= Len(packets)
         /\ packets[i] = Body(A.bytes)
         /\ packets[j] = Body(B.bytes)) =>
            /\ commands[i] = A.command
            /\ commands[j] = B.command

C22_Witness ==
    /\ payload = RectangleFrame \o WaveformFrame
    /\ packets = <<Body(RectangleFrame), Body(WaveformFrame)>>
    /\ Len(commands) = 2
    /\ commands[1].type = "DrawRectangle"
    /\ commands[2].type = "DrawOscilloscopeWaveform"

(***************************************************************************)
(* Further claims about a session, over SpecSession.                       *)
(***************************************************************************)
\* The frames of Slices that arrive in two slices: what the first slice
\* leaves in the framer, and the command of the whole frame.
SplitFrames ==
    {[head |-> RectangleHead, held |-> RectangleHead, state |-> "Normal",
      tail |-> RectangleTail, command |-> Rect(20, 40, 1, 1, ColourOf(1, 2, 3))],
     [head |-> EscapeHead, held |-> <<DRAW_RECTANGLE_COMMAND>>, state |-> "Escaped",
      tail |-> EscapeTail, command |-> Rect(219, 40, 1, 1, ColourOf(1, 2, 3))]}

\* C23: a frame whose bytes arrive in two consecutive cycles is completed
\* in the later cycle, whose list holds its command as if the bytes had
\* arrived in one slice; an escape pair cut after SLIP_ESC is completed by
\* the first byte of the later cycle.
C23_SplitFrameCompleted ==
    [][/\ \A sp \in SplitFrames :
            (/\ payload = sp.head
             /\ result = OkResult
             /\ buffer = sp.held
             /\ state = sp.state
             /\ DecodeCycle(sp.tail)) => commands' = <<sp.command>>
       /\ (/\ payload = <<SLIP_ESC>>
           /\ result = OkResult
           /\ buffer = <<>>
           /\ state = "Escaped"
           /\ (DecodeCycle(<<SLIP_ESC_END>>) \/ SlipDecodeCycle(<<SLIP_ESC_END>>))) =>
              /\ buffer' = <<SLIP_END>>
              /\ state' = "Normal"]_vars

\* Whether a packet is a rectangle packet that carries a colour (length 8
\* or 12), and whether it is one that carries none (length 5 or 9).
CarriesColour(p) == p # <<>> /\ p[1] = DRAW_RECTANGLE_COMMAND /\ Len(p) \in {8, 12}

CarriesNoColour(p) == p # <<>> /\ p[1] = DRAW_RECTANGLE_COMMAND /\ Len(p) \in {5, 9}

\* C24: the colour context lasts for the session: the start of a new cycle
\* and the reset of the decoders leave it as it is (it changes only in a
\* cycle that parses a length-8 or length-12 rectangle), and a length-5 or
\* length-9 rectangle takes the colour the earlier cycles left.
C24_ColourOutlivesCycle ==
    [][payload' # <<>> =>
         /\ current_colour' # current_colour =>
                \E i \in 1..Len(packets') : CarriesColour(packets'[i])
         /\ \A i \in 1..Len(commands') :
              (/\ i <= Len(packets')
               /\ CarriesNoColour(packets'[i])
               /\ \A j \in 1..(i - 1) : ~CarriesColour(packets'[j])) =>
                  commands'[i].colour = current_colour]_vars

\* A length-5 rectangle drawn in the colour a length-8 rectangle of an
\* earlier cycle set.
C24_Witness ==
    /\ payload = PositionFrame
    /\ packets = <<Body(PositionFrame)>>
    /\ commands = <<Rect(20, 40, 1, 1, ColourOf(1, 2, 3))>>
    /\ current_colour = ColourOf(1, 2, 3)
    /\ current_colour # InitialColour(crate)

\* C25: the reset of the decoders returns them to the state a session
\* starts in: the framer in Normal with an empty buffer and the colour
\* context at its initial value, whatever was decoded before.
C25_ResetRestoresSession ==
    [][Reset =>
         /\ buffer' = <<>>
         /\ state' = "Normal"
         /\ current_colour' = InitialColour(crate)]_vars

(***************************************************************************)
(* End to end, over SpecEndToEnd.                                          *)
(***************************************************************************)
\* C26: in a new session the cycle input [0xFE, xl, xh, yl, yh, 0xC0], its
\* bytes escaped where needed, decodes to exactly one command: the
\* rectangle at (xl + 256 * xh, yl + 256 * yh) of size (1, 1) in the initial
\* colour of the session.
C26_EndToEnd ==
    \A xl, xh, yl, yh \in Coordinates :
      payload = FrameOf(xl, xh, yl, yh) =>
          /\ result = OkResult
          /\ commands = <<Rect(xl + 256 * xh, yl + 256 * yh, 1, 1, InitialColour(crate))>>

(***************************************************************************)
(* The session after an error, over SpecCycle.                             *)
(***************************************************************************)
\* C27: no error ends the session: after a cycle that returned a framer or
\* parser error, a cycle of one complete well-formed frame yields exactly
\* the command of that frame.
C27_UsableAfterError ==
    [][\A g \in GoodFrames :
         (/\ result.kind = "Err"
          /\ DecodeCycle(g.bytes) \/ ProcessCycle(g.bytes)) =>
             /\ result' = OkResult
             /\ commands' = <<g.command>>]_vars

(***************************************************************************)
(* Two decoders, over SpecTwin.                                            *)
(***************************************************************************)
\* The two decoders hold the same buffer, state, colour context and
\* command list, and their latest calls returned the same result.
TwinAgrees ==
    /\ twin.buffer = buffer
    /\ twin.state = state
    /\ twin.current_colour = current_colour
    /\ twin.commands = commands
    /\ twin.result = result

C30_RejectedPacketCleared ==
    (result.kind = "Err" /\ result.error.err \in ParserErrors) => buffer = <<>>

(***************************************************************************)
(* Further claims about the framer, over Spec.                             *)
(***************************************************************************)
\* C31: the framer never emits a packet while an escape is unresolved:
\* SLIP_END received in Escaped completes no frame, it is an invalid
\* escaped byte (UnknownEscapedByte(0xC0), the buffer cleared, the state
\* Normal), and every packet handed to the parser is handed by a
\* decode_byte call that started in Normal.
C31_NoPacketWhileEscaped ==
    [][/\ (DecodeByte(SLIP_END) /\ state = "Escaped") =>
             /\ buffer' = <<>>
             /\ state' = "Normal"
             /\ result' = ErrResult(Error("UnknownEscapedByte", SLIP_END))
             /\ packets' = packets
             /\ commands' = commands
       /\ Len(packets') > Len(packets) => state = "Normal"]_vars

\* SLIP_END arrived in Escaped while a partial packet was buffered.
C31_Witness ==
    /\ was = "Escaped"
    /\ byte = SLIP_END
    /\ before # <<>>
    /\ buffer = <<>>
    /\ state = "Normal"
    /\ packets = <<>>
    /\ result = ErrResult(Error("UnknownEscapedByte", SLIP_END))

\* C32: after decode_byte has processed a byte the framer is in Escaped if
\* and only if that byte was SLIP_ESC received in Normal: every other byte
\* leaves the framer in Normal, and no byte received in Escaped leaves it
\* in Escaped.
C32_EscapedIffEscInNormal ==
    byte # NoByte =>
        (state = "Escaped" <=> (byte = SLIP_ESC /\ was = "Normal"))

\* SLIP_ESC arrived in Normal behind a partial packet; and an escaped byte
\* has brought an earlier escape back to Normal.
C32_Witness ==
    /\ state = "Escaped"
    /\ byte = SLIP_ESC
    /\ was = "Normal"
    /\ buffer # <<>>
    /\ buffer[Len(buffer)] \in {SLIP_END, SLIP_ESC}

(***************************************************************************)
(* The length of the command list, over SpecSession.                       *)
(***************************************************************************)
\* The number of SLIP_END bytes of a slice that a framer starting in state
\* st receives in Normal.
RECURSIVE NormalEnds(_, _)
NormalEnds(raw, st) ==
    IF raw = <<>> THEN 0
    ELSE (IF Head(raw) = SLIP_END /\ st = "Normal" THEN 1 ELSE 0)
         + NormalEnds(Tail(raw),
                      IF Head(raw) = SLIP_ESC /\ st = "Normal" THEN "Escaped"
                      ELSE "Normal")

\* C33: within one cycle the command list grows by at most one command for
\* each unescaped SLIP_END: after a decode call on the slice raw the list
\* holds at most as many commands as raw has SLIP_END bytes received in
\* Normal.
C33_OneCommandPerFrameEnd ==
    [][\A raw \in Slices :
         (DecodeCycle(raw) \/ ProcessCycle(raw)) =>
             Len(commands') <= NormalEnds(raw, state)]_vars

(***************************************************************************)
(* The command list after an error, over SpecFrames.                       *)
(***************************************************************************)
\* C34: the commands parsed earlier in a cycle are retained when a later
\* packet or byte of the cycle fails: when the decode call returns an error
\* the list holds exactly the commands of the packets completed before the
\* failure (all the packets handed but the rejected one, when the parser
\* failed; all of them, when the framer failed), in their order.
C34_CommandsRetainedOnError ==
    result.kind = "Err" =>
        /\ result.error.err \in ParserErrors => Len(commands) = Len(packets) - 1
        /\ result.error.err \in FramerErrors => Len(commands) = Len(packets)
        /\ \A i \in 1..Len(commands) :
             \A g \in GoodFrames :
               packets[i] = Body(g.bytes) => commands[i] = g.command

\* A rectangle was parsed before the parser rejected the character packet.
C34_Witness ==
    /\ result = ErrResult(CharacterInvalidFormat)
    /\ packets = <<Body(RectangleFrame), Body(MalformedCharacterFrame)>>
    /\ commands = <<Rect(20, 40, 1, 1, ColourOf(1, 2, 3))>>

(***************************************************************************)
(* SlipDecoder::decode, over SpecSlip.                                     *)
(***************************************************************************)
\* Whether every SLIP_ESC of a stream is followed by SLIP_ESC_END or
\* SLIP_ESC_ESC and the stream holds no SLIP_END of its own.
RECURSIVE ValidEscapes(_)
ValidEscapes(raw) ==
    IF raw = <<>> THEN TRUE
    ELSE IF Head(raw) = SLIP_END THEN FALSE
    ELSE IF Head(raw) = SLIP_ESC
    THEN /\ Len(raw) >= 2
         /\ raw[2] \in {SLIP_ESC_END, SLIP_ESC_ESC}
         /\ ValidEscapes(Tail(Tail(raw)))
    ELSE ValidEscapes(Tail(raw))

\* The bytes such a stream stands for.
RECURSIVE Unescaped(_)
Unescaped(raw) ==
    IF raw = <<>> THEN <<>>
    ELSE IF Head(raw) = SLIP_ESC
    THEN <<IF raw[2] = SLIP_ESC_END THEN SLIP_END ELSE SLIP_ESC>>
         \o Unescaped(Tail(Tail(raw)))
    ELSE <<Head(raw)>> \o Unescaped(Tail(raw))

\* C35: SlipDecoder::decode discards what earlier calls left in progress:
\* the buffer, the state and the result after decode(stream) are those a
\* new decoder gives for stream, and for a stream with valid escapes and no
\* frame end (that fits the capacity) the buffer is the unescaped bytes of
\* the stream in order.  The stream of a call is recorded in payload.
C35_DecodeDependsOnStreamOnly ==
    [][SlipDecodeCycle(payload') =>
         LET new == DecodeBytes(crate, NewDecoder(crate), payload', <<>>) IN
           /\ buffer' = new.d.buffer
           /\ state' = new.d.state
           /\ result' = new.res
           /\ (ValidEscapes(payload') /\ Len(Unescaped(payload')) <= Capacity) =>
                  /\ buffer' = Unescaped(payload')
                  /\ state' = "Normal"
                  /\ result' = OkResult]_vars

\* A stream of two escape pairs was decoded after a call that had left the
\* framer in Escaped.
C35_Witness ==
    /\ payload = <<SLIP_ESC, SLIP_ESC_END, SLIP_ESC>>
    /\ state = "Escaped"
    /\ buffer = <<SLIP_END>>

(***************************************************************************)
(* The input system, over SpecInput.                                       *)
(***************************************************************************)
\* The control messages among some messages, in order.
ControlMessages(sent) == SelectSeq(sent, LAMBDA m : Len(m) = 2 /\ m[1] = 67)

\* The mask of the last control message sent, 0 when none was.
LastMaskSent(sent) ==
    LET c == ControlMessages(sent) IN IF c = <<>> THEN 0 ELSE c[Len(c)][2]

\* C36: in every update frame the input system sends the control message
\* ['C', mask] if and only if the mask of the frame's keys differs from the
\* mask of the last control message sent (0 before the first), it sends no
\* other control message, and once it has sent one prev_mask is that mask;
\* a frame with the same mask sends no control message.
C36_ControlMessageOnChange ==
    [][InputSystem(app'.keys) =>
         LET mask == FrameMask(app'.keys.pressed)
             new == ControlMessages(SubSeq(app'.tx, Len(app.tx) + 1, Len(app'.tx)))
         IN  /\ new # <<>> <=> mask # LastMaskSent(app.tx)
             /\ new # <<>> => new = <<ControlMessage(mask)>> /\ app'.prev_mask = mask
             /\ app'.prev_mask = LastMaskSent(app'.tx)]_vars

\* Two frames held KeyZ and KeyB and one control message was sent, then a
\* frame released KeyB and the second one was.
C36_Witness ==
    /\ ControlMessages(app.tx)
         = <<ControlMessage(M8_EDIT + M8_LEFT), ControlMessage(M8_EDIT)>>
    /\ Len(app.tx) = 3
    /\ app.prev_mask = M8_EDIT

(***************************************************************************)
(* The remote key events, over SpecRemote.                                 *)
(***************************************************************************)
\* The key codes a mask selects under the default key map.
SelectedKeys(mask) ==
    {kc \in {"KeyZ", "KeyX", "KeyF", "KeyB", "KeyN", "KeyP", "ControlLeft", "ShiftLeft"} :
        \/ kc = "KeyZ" /\ BitSet(mask, M8_EDIT)
        \/ kc = "KeyX" /\ BitSet(mask, M8_OPTION)
        \/ kc = "KeyF" /\ BitSet(mask, M8_RIGHT)
        \/ kc = "KeyB" /\ BitSet(mask, M8_LEFT)
        \/ kc = "KeyN" /\ BitSet(mask, M8_DOWN)
        \/ kc = "KeyP" /\ BitSet(mask, M8_UP)
        \/ kc = "ControlLeft" /\ BitSet(mask, M8_SELECT)
        \/ kc = "ShiftLeft" /\ BitSet(mask, M8_START)}

\* How often a value stands in a sequence.
Count(seq, x) == Cardinality({i \in 1..Len(seq) : seq[i] = x})

\* What a step added at the end of a sequence.
Added(old, new) == SubSeq(new, Len(old) + 1, Len(new))

\* C37: a KeyPress event writes one Pressed input for every key its mask
\* selects and queues one Released input for the same key, and nothing
\* else; a run of flush_keyboard_event_queue writes every queued input
\* exactly once and leaves the queue empty; so a queued release is
\* eventually written and out of the queue.
C37_RemotePressIsReleased ==
    /\ [][\A mask \in RemoteMasks :
            input_from_event([kind |-> "KeyPress", mask |-> mask]) =>
              LET written == Added(app.keyboard_events, app'.keyboard_events)
                  queued == Added(app.event_queue, app'.event_queue)
              IN  /\ Len(written) = Cardinality(SelectedKeys(mask))
                  /\ Len(queued) = Cardinality(SelectedKeys(mask))
                  /\ \A kc \in SelectedKeys(mask) :
                        /\ Count(written, KeyboardInput(kc, "Pressed")) = 1
                        /\ Count(queued, KeyboardInput(kc, "Released")) = 1]_vars
    /\ [][flush_keyboard_event_queue =>
            LET written == Added(app.keyboard_events, app'.keyboard_events)
            IN  /\ app'.event_queue = <<>>
                /\ Len(written) = Len(app.event_queue)
                /\ \A i \in 1..Len(app.event_queue) :
                      Count(written, app.event_queue[i])
                        = Count(app.event_queue, app.event_queue[i])]_vars
    /\ \A kc \in {"KeyZ", "KeyB", "ShiftLeft"} :
          (Count(app.event_queue, KeyboardInput(kc, "Released")) > 0)
            ~> (/\ app.event_queue = <<>>
                /\ Count(app.keyboard_events, KeyboardInput(kc, "Released")) > 0)

\* KeyPress(M8_EDIT | M8_LEFT) was handled and the queue flushed: both
\* keys were pressed and then released, the last queued first.
C37_Witness ==
    /\ app.event_queue = <<>>
    /\ app.keyboard_events
         = <<KeyboardInput("KeyZ", "Pressed"), KeyboardInput("KeyB", "Pressed"),
             KeyboardInput("KeyB", "Released"), KeyboardInput("KeyZ", "Released")>>

(***************************************************************************)
(* put_byte, over Spec.                                                    *)
(***************************************************************************)
\* Whether decode_byte called put_byte for the last byte: an ordinary byte
\* in Normal (SLIP_END too in bevy_dirtywave_m8, whose arm for it is
\* commented out) or a valid escape code in Escaped.
PutByteCalled ==
    /\ byte # NoByte
    /\ \/ was = "Normal" /\ byte \notin {SLIP_END, SLIP_ESC}
       \/ was = "Normal" /\ byte = SLIP_END /\ crate = "bevy_dirtywave_m8"
       \/ was = "Escaped" /\ byte \in {SLIP_ESC_END, SLIP_ESC_ESC}

\* The byte it was called with.
PutByteArgument ==
    IF was = "Normal" THEN byte
    ELSE IF byte = SLIP_ESC_END THEN SLIP_END ELSE SLIP_ESC

\* C38: put_byte on a buffer below capacity appends exactly the given byte
\* at the end, leaves the earlier bytes and their order as they were,
\* makes the buffer one longer and sets the state to Normal.
C38_PutByteAppends ==
    (PutByteCalled /\ Len(before) < SLIP_BUFFER_CAPACITY) =>
        /\ Len(buffer) = Len(before) + 1
        /\ buffer[Len(buffer)] = PutByteArgument
        /\ \A i \in 1..Len(before) : buffer[i] = before[i]
        /\ state = "Normal"

\* put_byte(SLIP_END) was called in Escaped on a buffer of one other byte.
C38_Witness ==
    /\ was = "Escaped"
    /\ byte = SLIP_ESC_END
    /\ Len(before) = 1
    /\ before[1] # SLIP_END
    /\ buffer = Append(before, SLIP_END)
    /\ state = "Normal"

====
